---- MODULE Spec2Model ----
(***************************************************************************)
(* Model of logistics-ai-backend/app.py: the shipment store, the carrier   *)
(* tracking client (ShipEngineAPI, with the failures of its request and   *)
(* the carrier detection of _detect_carrier), the background reconciler    *)
(* (start_shipment_monitoring.monitor), the manual refresh endpoint        *)
(* (refresh_shipments), the add-shipment endpoint (handle_shipments), the  *)
(* track endpoint (track_shipment_endpoint) and the WebSocket side: the    *)
(* connect, disconnect and join_shipment_updates handlers and              *)
(* emit_shipment_update with its background task.                          *)
(*                                                                         *)
(* Python values: None is the string None below (no carrier payload uses   *)
(* it); a dict is a TLA+ function whose DOMAIN is the set of keys present; *)
(* a dict-or-None is NoneDict when it is None.  A datetime column holds    *)
(* the string str(dt); the clock datetime.utcnow() is the counter now,     *)
(* which every read advances.                                              *)
(***************************************************************************)
EXTENDS Integers, Sequences, FiniteSets, TLC

VARIABLES
    db,          \* the shipment table: a sequence of rows, row i has id i
    now,         \* datetime.utcnow()
    upstream,    \* what the carrier API answers now, per tracking number
    nchanges,    \* how often the carrier's answer changed so far
    events,      \* the calls of emit_shipment_update, in order
    latest,      \* per row: the committed write with the greatest updated_at
    mpc,         \* reconciler: "sleep", "fetch" (line 960) or "apply" (line 962)
    mcycles,     \* reconciler: cycles started
    mActive,     \* reconciler: active_shipments (ids), line 948
    mIdx,        \* reconciler: position of the for loop in mActive
    mLoaded,     \* reconciler session: attribute values as loaded, per id
    mExpired,    \* reconciler session: ids whose attributes are expired
    mInfo,       \* reconciler: tracking_info of the current record
    mlog,        \* reconciler: what went wrong so far, as (id, kind) pairs
    rpc,         \* refresh: "idle", "loop", "fetched", "commit" or "done"
    rcount,      \* refresh: requests started
    rUser,       \* refresh: current_user.id
    rShipments,  \* refresh: shipments (ids), line 702
    rIdx,        \* refresh: position of the for loop in rShipments
    rLoaded,     \* refresh session: attribute values as loaded, per id
    rCur,        \* refresh session: attribute values as set by the handler
    rFetched,    \* refresh: tracking_info per id (NoneDict before the call)
    rEv0,        \* refresh: Len(events) when the request started
    rErrs,       \* refresh: the errors raised in this request
    updated_count,   \* refresh: line 703
    status_changes,  \* refresh: line 704
    rResp,       \* refresh: the response returned (code 0 while running)
    apc,         \* add-shipment workers: "idle" or "checked", per worker
    aReq,        \* add-shipment workers: the request (user, tracking number)
    aInfo,       \* add-shipment workers: tracking_info, line 574
    aResp,       \* add-shipment workers: status code of the last response
    sock,        \* WebSocket sessions: state, authenticated user and rooms
    inbox,       \* per session: the shipment_update events received, as
                 \* positions in events
    deferred,    \* the background tasks started by emit_shipment_update
    pub,         \* per call of emit_shipment_update: how it went
    tcount,      \* track endpoint: requests served
    tResp,       \* track endpoint: the last response
    tReq,        \* track endpoint: the last request (user, tracking number)
    tCalls,      \* track endpoint: calls of get_tracking_info, line 640
    dTn,         \* track_shipment: the tracking number of the call, as
                 \* its characters
    dHint        \* track_shipment: "pending" before line 207, then the
                 \* carrier code of line 207 (None: no carrier_code sent)

storeVars == <<db, now, upstream, nchanges, events, latest>>
monVars == <<mpc, mcycles, mActive, mIdx, mLoaded, mExpired, mInfo, mlog>>
refVars == <<rpc, rcount, rUser, rShipments, rIdx, rLoaded, rCur, rFetched,
             rEv0, rErrs, updated_count, status_changes, rResp>>
addVars == <<apc, aReq, aInfo, aResp>>
sockVars == <<sock, inbox, deferred, pub>>
trackVars == <<tcount, tResp, tReq, tCalls>>
detectVars == <<dTn, dHint>>
vars == <<storeVars, monVars, refVars, addVars, sockVars, trackVars, detectVars>>

----------------------------------------------------------------------------
(* Bounds of the model *)

MaxCycles == 2
MaxRefresh == 1
MaxCarrierChanges == 1
MaxRows == 2
MaxPublish == 1
MaxTrack == 1

----------------------------------------------------------------------------
(* Python values *)

None == "None"
NoneDict == [py_none |-> TRUE]
EmptyDict == [k \in {} |-> None]

\* an exception raised by a call that returns a dict otherwise
Raised == [py_raise |-> TRUE]

\* a JSON value that is no object where the code reads a dict
NotADict == [py_not_a_dict |-> TRUE]

\* bool(x) of a str-or-None
Truthy(x) == x # None /\ x # ""

\* bool(d) of a dict-or-None
TruthyDict(d) == d # NoneDict /\ DOMAIN d # {}

\* d.get(k, default)
Get(d, k, default) == IF k \in DOMAIN d THEN d[k] ELSE default

\* str.lower() on the statuses of the model
Lower(s) ==
    CASE s = "Delivered" -> "delivered"
      [] s = "DELIVERED" -> "delivered"
      [] s = "DeLiVeReD" -> "delivered"
      [] s = "Exception" -> "exception"
      [] s = "EXCEPTION" -> "exception"
      [] s = "In Transit" -> "in transit"
      [] OTHER -> s

\* str.replace('Z', '+00:00') on the timestamps of the model
ReplaceZ(s) ==
    CASE s = "2025-01-02T00:00:00Z" -> "2025-01-02T00:00:00+00:00"
      [] s = "2025-01-05T00:00:00Z" -> "2025-01-05T00:00:00+00:00"
      [] OTHER -> s

\* datetime.fromisoformat(s): the datetime, or "raise" on a ValueError
FromIsoFormat(s) ==
    CASE s = "2025-01-02T00:00:00+00:00" -> "2025-01-02 00:00:00+00:00"
      [] s = "2025-01-05T00:00:00+00:00" -> "2025-01-05 00:00:00+00:00"
      [] OTHER -> "raise"

\* datetime.isoformat() of a parsed estimated_delivery
IsoFormat(dt) ==
    CASE dt = "2025-01-02 00:00:00+00:00" -> "2025-01-02T00:00:00+00:00"
      [] dt = "2025-01-05 00:00:00+00:00" -> "2025-01-05T00:00:00+00:00"
      [] OTHER -> dt

\* datetime.isoformat() of a clock value
ClockIso(t) == "utc+" \o ToString(t)

----------------------------------------------------------------------------
(* The carrier: payloads of GET /v1/tracking *)

Users == {1, 2}
TrackingNumbers == {"T1", "T2"}

PayloadTransit ==
    [carrier_code |-> "fedex", status_code |-> "IT",
     status_description |-> "In Transit",
     events |-> <<[city_locality |-> "Memphis", state_province |-> "TN",
                   country_code |-> "US"]>>,
     ship_to |-> [city_locality |-> "Austin", state_province |-> "TX",
                  country_code |-> "US"],
     estimated_delivery_date |-> "2025-01-02T00:00:00Z"]

PayloadDelivered ==
    [status_code |-> "DE", status_description |-> "Delivered"]

PayloadException ==
    [carrier_code |-> "ups", status_code |-> "EX",
     status_description |-> "exception",
     events |-> <<[city_locality |-> "Reno"]>>,
     estimated_delivery_date |-> "not-a-date"]

\* a payload whose status_description is null
PayloadNoStatus ==
    [carrier_code |-> "usps", status_code |-> "NY",
     status_description |-> None,
     events |-> <<[city_locality |-> "Boise", state_province |-> "ID"]>>]

PayloadUnknown ==
    [carrier_code |-> "ups", status_code |-> "Exception",
     status_description |-> "Unknown",
     events |-> <<[city_locality |-> "Reno", state_province |-> "NV"]>>,
     ship_to |-> [city_locality |-> "Austin", state_province |-> "TX",
                  country_code |-> "US"],
     estimated_delivery_date |-> "2025-01-05T00:00:00Z"]

\* a payload that has nothing but its status
PayloadStatus(status_description) ==
    [status_code |-> "NY", status_description |-> status_description]

Payloads == {PayloadTransit, PayloadDelivered, PayloadException, PayloadUnknown}

\* what track_shipment returns: response.json(), or None on any request error
ApiResponses == Payloads \cup {NoneDict}

\* a payload whose first event is no object
PayloadBadEvents ==
    [carrier_code |-> "fedex", status_code |-> "IT",
     status_description |-> "In Transit", events |-> <<NotADict>>]

\* what the request of line 221 does when it brings no payload: a response
\* that is not 2xx (401 is what a missing or wrong API key gets), no
\* response in 30 s, no connection, a 200 whose body is no JSON
HttpError(status_code) == [http_status_code |-> status_code]
Timeout == [py_timeout |-> TRUE]
ConnectionError == [py_connection_error |-> TRUE]
BadJson == [py_json_decode_error |-> TRUE]

\* the same body where response.json() raises a plain ValueError, which is no
\* RequestException
BadJsonValueError == [py_value_error |-> TRUE]

\* the failures of the carrier request: no usable answer
RequestFailures ==
    {NoneDict, HttpError(404), HttpError(401), HttpError(422), HttpError(500),
     Timeout, ConnectionError, BadJson, BadJsonValueError,
     EmptyDict, NotADict, PayloadBadEvents}

\* ShipEngineAPI.track_shipment, lines 220-243: response.json(), None for a
\* RequestException, or the exception that is none
ApiTrackShipment(outcome) ==
    IF outcome = NoneDict THEN NoneDict
    ELSE IF "http_status_code" \in DOMAIN outcome THEN NoneDict
    ELSE IF outcome \in {Timeout, ConnectionError, BadJson} THEN NoneDict
    ELSE IF outcome = BadJsonValueError THEN Raised
    ELSE outcome

\* _parse_shipengine_response raises inside its try: .get on a value that is
\* no dict
ParseRaises(api_response) ==
    \/ api_response = NotADict
    \/ /\ Get(api_response, "events", <<>>) # <<>>
       /\ Get(api_response, "events", <<>>)[1] = NotADict

\* f"{a}, {b}, {c}".strip(', ') for parts without leading or trailing ", "
FormatAddr(city, state, country) ==
    IF country # "" THEN city \o ", " \o state \o ", " \o country
    ELSE IF state # "" THEN city \o ", " \o state
    ELSE city

ParseOrigin(api_response) ==
    LET events_ == Get(api_response, "events", <<>>) IN
    IF events_ = <<>> THEN None
    ELSE LET first_event == events_[1]
             origin_addr == Get(first_event, "city_locality", "")
             origin_state == Get(first_event, "state_province", "")
             origin_country == Get(first_event, "country_code", "")
         IN IF Truthy(origin_addr)
            THEN FormatAddr(origin_addr, origin_state, origin_country)
            ELSE None

ParseDestination(api_response) ==
    LET events_ == Get(api_response, "events", <<>>)
        ship_to == Get(api_response, "ship_to", EmptyDict) IN
    IF events_ = <<>> \/ DOMAIN ship_to = {} THEN None
    ELSE LET dest_city == Get(ship_to, "city_locality", "")
             dest_state == Get(ship_to, "state_province", "")
             dest_country == Get(ship_to, "country_code", "")
         IN IF Truthy(dest_city)
            THEN FormatAddr(dest_city, dest_state, dest_country)
            ELSE None

ParseStatus(api_response) ==
    LET status_code == Get(api_response, "status_code", "")
        status_description == Get(api_response, "status_description", "Unknown")
    IN IF status_description # "Unknown" THEN status_description ELSE status_code

\* ShipEngineAPI._parse_shipengine_response
ParseShipEngineResponse(api_response) ==
    IF ~TruthyDict(api_response) \/ ParseRaises(api_response) THEN NoneDict
    ELSE [carrier |-> Get(api_response, "carrier_code", "Unknown"),
          status |-> ParseStatus(api_response),
          origin |-> ParseOrigin(api_response),
          destination |-> ParseDestination(api_response),
          estimated_delivery |-> Get(api_response, "estimated_delivery_date", None)]

\* a faulty variant of GetTrackingInfo: without the handlers of track_shipment,
\* the body of an error response is parsed like a payload
GetTrackingInfoParsesErrors(outcome) ==
    IF outcome \in {NoneDict, Raised} THEN NoneDict
    ELSE ParseShipEngineResponse(outcome)

\* ShipEngineAPI.get_tracking_info, given what the carrier request does: the
\* snapshot, or None; the handler of lines 296-298 turns what track_shipment
\* raises into None
GetTrackingInfo(outcome) ==
    LET api_response == ApiTrackShipment(outcome) IN
    IF api_response = Raised THEN NoneDict
    ELSE IF api_response = NoneDict THEN NoneDict
    ELSE ParseShipEngineResponse(api_response)

----------------------------------------------------------------------------
(* The shipment table and the ORM session *)

Columns == {"id", "tracking_number", "carrier", "description", "origin",
            "destination", "status", "estimated_delivery", "created_at",
            "updated_at", "user_id"}

Ids == DOMAIN db

\* a faulty variant of RowsOf: the query has no filter on the owner
RowsOfAll(user_id) == Ids

\* Shipment.query.filter_by(user_id=user_id).all()
RowsOf(user_id) == {i \in Ids : db[i].user_id = user_id}

\* the ids of a set, in ascending order (the order of an unordered SELECT)
RECURSIVE SortedSeq(_)
SortedSeq(S) ==
    IF S = {} THEN <<>>
    ELSE LET m == CHOOSE x \in S : \A y \in S : x <= y
         IN <<m>> \o SortedSeq(S \ {m})

\* a faulty variant of ParseEstimatedDelivery: a string that does not parse
\* clears the column
ParseEstimatedDeliveryClears(tracking_info, keep) ==
    IF Truthy(tracking_info.estimated_delivery)
    THEN LET dt == FromIsoFormat(ReplaceZ(tracking_info.estimated_delivery))
         IN IF dt = "raise" THEN None ELSE dt
    ELSE keep

\* the estimated delivery parsed from a snapshot, or keep when it is not
\* supplied or does not parse (the except branch logs a warning)
ParseEstimatedDelivery(tracking_info, keep) ==
    IF Truthy(tracking_info.estimated_delivery)
    THEN LET dt == FromIsoFormat(ReplaceZ(tracking_info.estimated_delivery))
         IN IF dt = "raise" THEN keep ELSE dt
    ELSE keep

\* Shipment(...) of handle_shipments, with the column defaults
NewShipment(id, tracking_number, user_id, tracking_info, t) ==
    [id |-> id,
     tracking_number |-> tracking_number,
     carrier |-> Get(tracking_info, "carrier", "Unknown"),
     description |-> None,
     origin |-> Get(tracking_info, "origin", None),
     destination |-> Get(tracking_info, "destination", None),
     status |-> Get(tracking_info, "status", "Pending"),
     estimated_delivery |-> ParseEstimatedDelivery(tracking_info, None),
     created_at |-> t,
     updated_at |-> t,
     user_id |-> user_id]

\* Shipment.serialize
Serialize(row) ==
    [id |-> row.id,
     tracking_number |-> row.tracking_number,
     carrier |-> row.carrier,
     description |-> row.description,
     origin |-> row.origin,
     destination |-> row.destination,
     status |-> row.status,
     estimated_delivery |-> IF row.estimated_delivery # None
                            THEN IsoFormat(row.estimated_delivery) ELSE None,
     created_at |-> ClockIso(row.created_at),
     updated_at |-> ClockIso(row.updated_at)]

\* db.session.commit() for one object: the UPDATE sets the columns whose
\* attribute differs from the value loaded, in the row as it is stored now
FlushRow(stored, loaded, cur) ==
    [c \in Columns |-> IF cur[c] # loaded[c] THEN cur[c] ELSE stored[c]]

\* db.session.commit() for the objects ids of a session
Flush(table, ids, loaded, cur) ==
    [i \in DOMAIN table |->
        IF i \in ids THEN FlushRow(table[i], loaded[i], cur[i]) ELSE table[i]]

\* a faulty variant of Rollback: the failed commit leaves what it flushed in the table
RollbackKeepsFlushed(table, ids, loaded, cur) == Flush(table, ids, loaded, cur)

\* db.session.rollback(): nothing of the session reaches the table
Rollback(table, ids, loaded, cur) == table

\* the committed write with the greatest updated_at, per row
NoteWrites(lat, ids, loaded, cur) ==
    [i \in DOMAIN lat |->
        IF i \in ids /\ cur[i] # loaded[i]
           /\ (lat[i] = NoneDict \/ lat[i].updated_at < cur[i].updated_at)
        THEN cur[i] ELSE lat[i]]

\* emit_shipment_update(user_id, shipment_data, update_type): the event sent
\* to the room of user_id, without its emission timestamp
EmitShipmentUpdate(log, user_id, shipment_data, update_type) ==
    Append(log, [user_id |-> user_id, type |-> update_type,
                 shipment |-> shipment_data])

----------------------------------------------------------------------------
(* WebSocket sessions and rooms *)

Sessions == {1, 2, 3}

\* authenticate_socket returns None
NoUser == 0

Tokens == {None, "", "jwt-user1", "jwt-user2", "Bearer jwt-user1",
           "jwt-user1-expired", "jwt-user2-forged", "jwt-user3",
           "jwt-no-user-id", "garbage"}

\* auth_token[7:] when auth_token.startswith('Bearer ')
StripBearer(auth_token) ==
    CASE auth_token = "Bearer jwt-user1" -> "jwt-user1"
      [] OTHER -> auth_token

\* jwt.decode(auth_token, SECRET_KEY, algorithms=["HS256"]): the claims of a
\* token signed with the key and not expired
JwtDecode(auth_token) ==
    CASE auth_token = "jwt-user1" -> [user_id |-> 1]
      [] auth_token = "jwt-user2" -> [user_id |-> 2]
      [] auth_token = "jwt-user3" -> [user_id |-> 3]
      [] auth_token = "jwt-no-user-id" -> [sub |-> 1]
      [] OTHER -> Raised

\* User.query.get(id): the users table holds Users
UserQueryGet(id) == IF id \in Users THEN id ELSE NoUser

\* a faulty variant of AuthenticateSocket: the expiry of the token is not verified
AuthenticateSocketNoExpiry(auth_token) ==
    IF ~Truthy(auth_token) THEN NoUser
    ELSE IF auth_token = "jwt-user1-expired" THEN 1
    ELSE LET data == JwtDecode(StripBearer(auth_token)) IN
         IF data = Raised \/ "user_id" \notin DOMAIN data THEN NoUser
         ELSE UserQueryGet(data.user_id)

\* authenticate_socket: the user's id, or NoUser
AuthenticateSocket(auth_token) ==
    IF ~Truthy(auth_token) THEN NoUser
    ELSE LET data == JwtDecode(StripBearer(auth_token)) IN
         IF data = Raised \/ "user_id" \notin DOMAIN data THEN NoUser
         ELSE UserQueryGet(data.user_id)

\* the room joined at connect and addressed by emit_shipment_update
UserRoom(user_id) == "user_" \o ToString(user_id)

\* a faulty variant of ShipmentsRoom: join_shipment_updates joins the room of connect
ShipmentsRoomIsUserRoom(user_id) == "user_" \o ToString(user_id)

\* the room joined by join_shipment_updates
ShipmentsRoom(user_id) == "shipments_" \o ToString(user_id)

\* the sessions in a room
Room(r) == {s \in Sessions : sock[s].state = "connected" /\ r \in sock[s].rooms}

\* a session: token is the credential it presented at connect
NewSession == [state |-> "new", user |-> NoUser, rooms |-> {}, token |-> None]

\* the payloads of the connect and join_shipment_updates events
AuthPayloads == {NoneDict, EmptyDict} \cup {[token |-> t] : t \in Tokens}

\* handle_connect: reject, or join the room of the user
HandleConnect(s, auth) ==
    /\ sock[s].state = "new"
    /\ LET token == IF TruthyDict(auth) THEN Get(auth, "token", None) ELSE None
           user == AuthenticateSocket(token) IN
       sock' = [sock EXCEPT ![s] =
                   IF user = NoUser
                   THEN [state |-> "rejected", user |-> NoUser, rooms |-> {},
                         token |-> token]
                   ELSE [state |-> "connected", user |-> user,
                         rooms |-> {UserRoom(user)}, token |-> token]]
    /\ UNCHANGED <<storeVars, monVars, refVars, addVars, inbox, deferred, pub,
                   trackVars, detectVars>>

\* handle_disconnect: the server takes the session out of its rooms
HandleDisconnect(s) ==
    /\ sock[s].state = "connected"
    /\ sock' = [sock EXCEPT ![s] = [state |-> "closed", user |-> NoUser,
                                    rooms |-> {}, token |-> None]]
    /\ UNCHANGED <<storeVars, monVars, refVars, addVars, inbox, deferred, pub,
                   trackVars, detectVars>>

\* handle_join_shipment_updates; data.get on a payload that is no dict raises
\* and the handler ends
HandleJoinShipmentUpdates(s, data) ==
    /\ sock[s].state = "connected"
    /\ LET user == IF data = NoneDict THEN NoUser
                   ELSE AuthenticateSocket(Get(data, "token", None)) IN
       sock' = [sock EXCEPT ![s].rooms =
                   IF user # NoUser THEN @ \cup {ShipmentsRoom(user)} ELSE @]
    /\ UNCHANGED <<storeVars, monVars, refVars, addVars, inbox, deferred, pub,
                   trackVars, detectVars>>

\* a faulty variant of Deliver: the first failing session ends the fan-out
DeliverUntilFailure(box, members, lost, n) ==
    [s \in Sessions |->
        IF s \in members /\ \A f \in lost : s < f
        THEN Append(box[s], n) ELSE box[s]]

\* socketio.emit('shipment_update', ..., room=...): the event is queued for
\* every session in the room; lost are the sessions whose transport fails
Deliver(box, members, lost, n) ==
    [s \in Sessions |->
        IF s \in members /\ s \notin lost THEN Append(box[s], n) ELSE box[s]]

\* the outcomes of the direct emit in emit_shipment_update: done (sent),
\* RuntimeError (the emit is left to a background task: deferred), another
\* exception (failed: logged only)
PublishOutcomes == {"sent", "deferred", "failed"}

\* a faulty variant of PublishTo: an event for a shipment and a status that
\* were published before is not sent again
PublishToOnce(user_id, how, lost) ==
    LET n == Len(events) + 1
        seen == \E k \in 1..Len(events) :
                   /\ events[k].shipment.id = events'[n].shipment.id
                   /\ events[k].shipment.status = events'[n].shipment.status
        to == IF how = "sent" /\ ~seen THEN Room(UserRoom(user_id)) ELSE {} IN
    /\ pub' = Append(pub, [outcome |-> how, lost |-> lost \cap to])
    /\ inbox' = Deliver(inbox, to, lost, n)
    /\ deferred' = IF how = "deferred" THEN Append(deferred, n) ELSE deferred

\* a faulty variant of PublishTo: the background task is started as well as the
\* direct emit
PublishToTwice(user_id, how, lost) ==
    LET n == Len(events) + 1
        to == IF how = "sent" THEN Room(UserRoom(user_id)) ELSE {} IN
    /\ pub' = Append(pub, [outcome |-> how, lost |-> lost \cap to])
    /\ inbox' = Deliver(inbox, to, lost, n)
    /\ deferred' = Append(deferred, n)

\* emit_shipment_update, lines 397-409, for the call that becomes events[n]
PublishTo(user_id, how, lost) ==
    LET n == Len(events) + 1
        to == IF how = "sent" THEN Room(UserRoom(user_id)) ELSE {} IN
    /\ pub' = Append(pub, [outcome |-> how, lost |-> lost \cap to])
    /\ inbox' = Deliver(inbox, to, lost, n)
    /\ deferred' = IF how = "deferred" THEN Append(deferred, n) ELSE deferred

\* a faulty variant of EmitRaises: an emit that fails raises to the caller
EmitRaisesOnFailure(how) == how = "failed"

\* emit_shipment_update raises to its caller: never, the handler of lines
\* 408-409 logs whatever the body raised
EmitRaises(how) == FALSE

\* a call of emit_shipment_update by a handler, for shipment i of the user
EmitShipmentUpdateCall(user_id, i, update_type, how, lost) ==
    /\ Len(events) < MaxPublish
    /\ db[i].user_id = user_id
    /\ events' = EmitShipmentUpdate(events, user_id, Serialize(db[i]), update_type)
    /\ PublishTo(user_id, how, lost)
    /\ UNCHANGED <<db, now, upstream, nchanges, latest, monVars, refVars,
                   addVars, sock, trackVars, detectVars>>

\* _emit, lines 386-395, run by the background task: the emit, now
DeferredRun ==
    /\ deferred # <<>>
    /\ LET n == Head(deferred)
           to == Room(UserRoom(events[n].user_id)) IN
       /\ pub' = [pub EXCEPT ![n].outcome = "sent_later"]
       /\ inbox' = Deliver(inbox, to, {}, n)
    /\ deferred' = Tail(deferred)
    /\ UNCHANGED <<storeVars, monVars, refVars, addVars, sock, trackVars, detectVars>>

\* _emit when its emit raises: logged only
DeferredRunFail ==
    /\ deferred # <<>>
    /\ pub' = [pub EXCEPT ![Head(deferred)].outcome = "failed"]
    /\ deferred' = Tail(deferred)
    /\ UNCHANGED <<storeVars, monVars, refVars, addVars, sock, inbox, trackVars, detectVars>>

----------------------------------------------------------------------------
(* The per-record update rules *)

\* a faulty variant of MonitorUpdate: the status is not set
MonitorUpdateKeepsStatus(row, tracking_info, t) ==
    [row EXCEPT
        !.carrier = Get(tracking_info, "carrier", row.carrier),
        !.origin = Get(tracking_info, "origin", row.origin),
        !.destination = Get(tracking_info, "destination", row.destination),
        !.updated_at = t]

\* monitor, lines 971-984: the attributes set when the status changed
MonitorUpdate(row, tracking_info, t) ==
    [row EXCEPT
        !.status = Get(tracking_info, "status", row.status),
        !.carrier = Get(tracking_info, "carrier", row.carrier),
        !.origin = Get(tracking_info, "origin", row.origin),
        !.destination = Get(tracking_info, "destination", row.destination),
        !.estimated_delivery =
            ParseEstimatedDelivery(tracking_info, row.estimated_delivery),
        !.updated_at = t]

\* a faulty variant of MonitorChanged: the statuses are compared ignoring case
MonitorChangedIgnoreCase(row, tracking_info) ==
    /\ TruthyDict(tracking_info)
    /\ Lower(Get(tracking_info, "status", row.status)) # Lower(row.status)

\* a faulty variant of MonitorChanged: every snapshot is written, as in refresh_shipments
MonitorChangedAlways(row, tracking_info) == TruthyDict(tracking_info)

\* monitor, lines 962-967: whether the record is written
MonitorChanged(row, tracking_info) ==
    /\ TruthyDict(tracking_info)
    /\ Get(tracking_info, "status", row.status) # row.status

\* refresh_shipments, lines 720-733: the attributes set for every snapshot
RefreshUpdate(row, tracking_info, t) ==
    [row EXCEPT
        !.status = Get(tracking_info, "status", row.status),
        !.carrier = Get(tracking_info, "carrier", row.carrier),
        !.origin = Get(tracking_info, "origin", row.origin),
        !.destination = Get(tracking_info, "destination", row.destination),
        !.estimated_delivery =
            ParseEstimatedDelivery(tracking_info, row.estimated_delivery),
        !.updated_at = t]

\* refresh_shipments, line 715: whether the record is written
RefreshWrites(row, tracking_info) == TruthyDict(tracking_info)

\* refresh_shipments, line 737: whether the change is listed and published
RefreshChanged(row, tracking_info) ==
    Get(tracking_info, "status", row.status) # row.status

\* refresh_shipments, line 734: the count after a record was written
CountUpdated(count, row, tracking_info) == count + 1

\* a faulty variant of MonitorSelects: without the IS NULL branch, a null
\* status is not selected (NOT IN is no match for it)
MonitorSelectsStatusKnown(status) ==
    /\ status # None
    /\ status \notin {"Delivered", "delivered", "DELIVERED", "Delivered",
                      "Exception"}

\* monitor, lines 948-953: the filter of the query
MonitorSelects(status) ==
    \/ status = None
    \/ status \notin {"Delivered", "delivered", "DELIVERED", "Delivered",
                      "Exception"}

\* a faulty variant of RefreshSkips: without the test of shipment.status, a
\* null or empty status is skipped as well
RefreshSkipsFalsy(status) ==
    ~Truthy(status) \/ Lower(status) \in {"delivered", "exception"}

\* a faulty variant of RefreshSkips: the status is compared without lower()
RefreshSkipsExactCase(status) ==
    Truthy(status) /\ status \in {"delivered", "exception"}

\* refresh_shipments, line 709: the record is skipped
RefreshSkips(status) ==
    Truthy(status) /\ Lower(status) \in {"delivered", "exception"}

----------------------------------------------------------------------------
(* The carrier's answer changes *)

CarrierChange(tn, r) ==
    /\ nchanges < MaxCarrierChanges
    /\ r # upstream[tn]
    /\ upstream' = [upstream EXCEPT ![tn] = r]
    /\ nchanges' = nchanges + 1
    /\ UNCHANGED <<db, now, events, latest, monVars, refVars, addVars, sockVars,
                   trackVars, detectVars>>

----------------------------------------------------------------------------
(* The reconciler: start_shipment_monitoring.monitor *)

NoSession == [i \in Ids |-> NoneDict]

\* lines 946-955: the query, and the end of a cycle with nothing to poll
MonitorSelect ==
    /\ mpc = "sleep"
    /\ mcycles < MaxCycles
    /\ LET sel == {i \in Ids : MonitorSelects(db[i].status)} IN
       /\ mActive' = SortedSeq(sel)
       /\ mLoaded' = [i \in Ids |-> IF i \in sel THEN db[i] ELSE NoneDict]
       /\ mpc' = IF sel = {} THEN "sleep" ELSE "fetch"
    /\ mcycles' = mcycles + 1
    /\ mIdx' = 1
    /\ mExpired' = {}
    /\ mInfo' = NoneDict
    /\ UNCHANGED <<mlog, storeVars, refVars, addVars, sockVars, trackVars, detectVars>>

\* line 960: the carrier call for the current record; reading
\* shipment.tracking_number reloads the row when a commit expired it
MonitorFetch ==
    /\ mpc = "fetch"
    /\ LET s == mActive[mIdx]
           row == IF s \in mExpired THEN db[s] ELSE mLoaded[s] IN
       /\ mLoaded' = [mLoaded EXCEPT ![s] = row]
       /\ mExpired' = mExpired \ {s}
       /\ mInfo' = GetTrackingInfo(upstream[row.tracking_number])
    /\ mpc' = "apply"
    /\ UNCHANGED <<mlog, storeVars, mcycles, mActive, mIdx, refVars, addVars,
                   sockVars, trackVars, detectVars>>

\* a faulty variant of MonitorAdvance: the loop stays at the record
MonitorAdvanceStays ==
    /\ mIdx' = mIdx
    /\ mpc' = "fetch"
    /\ UNCHANGED mActive

\* a faulty variant of MonitorAdvance: the loop ends after the first record
MonitorAdvanceBreak ==
    /\ mIdx' = 1
    /\ mpc' = "sleep"
    /\ mActive' = <<>>

\* lines 957, 997-1005: the next record, or the end of the cycle, where
\* leaving app.app_context() removes the session
MonitorAdvance ==
    IF mIdx < Len(mActive)
    THEN /\ mIdx' = mIdx + 1
         /\ mpc' = "fetch"
         /\ UNCHANGED mActive
    ELSE /\ mIdx' = 1
         /\ mpc' = "sleep"
         /\ mActive' = <<>>

\* lines 962-992 for a record whose status changed: set, commit, publish.
\* The commit expires the session; serialize() reloads the row.  how is the
\* outcome of the direct emit.
MonitorWriteAs(how) ==
    /\ mpc = "apply"
    /\ LET s == mActive[mIdx]
           old == mLoaded[s]
           cur == MonitorUpdate(old, mInfo, now)
           stored == FlushRow(db[s], old, cur) IN
       /\ MonitorChanged(old, mInfo)
       /\ db' = [db EXCEPT ![s] = stored]
       /\ latest' = NoteWrites(latest, {s}, mLoaded, [mLoaded EXCEPT ![s] = cur])
       /\ events' = EmitShipmentUpdate(events, stored.user_id, Serialize(stored),
                                       "status_change_auto")
       /\ PublishTo(stored.user_id, how, {})
       /\ IF mIdx < Len(mActive)
          THEN /\ mLoaded' = [mLoaded EXCEPT ![s] = stored]
               /\ mExpired' = {mActive[k] : k \in 1..Len(mActive)} \ {s}
          ELSE /\ mLoaded' = NoSession
               /\ mExpired' = {}
    /\ now' = now + 1
    /\ MonitorAdvance
    /\ mInfo' = NoneDict
    /\ mlog' = IF EmitRaises(how)
               THEN mlog \cup {<<mActive[mIdx], "error">>} ELSE mlog
    /\ UNCHANGED <<upstream, nchanges, mcycles, refVars, addVars, sock,
                   trackVars, detectVars>>

\* the same when the direct emit is done
MonitorWrite == MonitorWriteAs("sent")

\* lines 962-967 for an absent snapshot or an unchanged status: nothing
MonitorKeep ==
    /\ mpc = "apply"
    /\ ~MonitorChanged(mLoaded[mActive[mIdx]], mInfo)
    /\ IF mIdx < Len(mActive)
       THEN UNCHANGED <<mLoaded, mExpired>>
       ELSE mLoaded' = NoSession /\ mExpired' = {}
    /\ MonitorAdvance
    /\ mlog' = IF mInfo = NoneDict
               THEN mlog \cup {<<mActive[mIdx], "absent">>} ELSE mlog
    /\ mInfo' = NoneDict
    /\ UNCHANGED <<storeVars, mcycles, refVars, addVars, sockVars, trackVars, detectVars>>

MonitorNext == MonitorSelect \/ MonitorFetch \/ MonitorWrite \/ MonitorKeep

\* lines 988-992 when the direct emit raises: emit_shipment_update starts the
\* background task or logs the error, and returns
MonitorWriteFault == \E how \in PublishOutcomes \ {"sent"} : MonitorWriteAs(how)

\* lines 999-1001: continue with the next record, if there is one
MonitorErrorAdvance ==
    /\ MonitorAdvance
    /\ IF mIdx < Len(mActive)
       THEN UNCHANGED <<mLoaded, mExpired>>
       ELSE mLoaded' = NoSession /\ mExpired' = {}

\* lines 957-1001: an exception raised in the body of the loop while the
\* attributes of the record are loaded and nothing is set yet; the handler
\* logs it and the loop goes on
MonitorRecordError ==
    /\ mpc = "apply"
    /\ MonitorErrorAdvance
    /\ mlog' = mlog \cup {<<mActive[mIdx], "error">>}
    /\ mInfo' = NoneDict
    /\ UNCHANGED <<storeVars, mcycles, refVars, addVars, sockVars, trackVars, detectVars>>

\* a faulty variant of MonitorBackoff: the outer handler ends the thread
MonitorBackoffStops ==
    /\ mIdx' = 1
    /\ mpc' = "stopped"
    /\ mActive' = <<>>
    /\ mLoaded' = NoSession /\ mExpired' = {}

\* lines 1007-1010 and 943: the outer handler logs, the session goes with the
\* application context, the thread sleeps 60 s and the loop starts over
MonitorBackoff ==
    /\ mIdx' = 1
    /\ mpc' = "sleep"
    /\ mActive' = <<>>
    /\ mLoaded' = NoSession /\ mExpired' = {}

\* lines 985, 999-1000, 1007-1010: the commit raises.  The session has rolled
\* back and expired its objects and takes no statement before a rollback();
\* the log line of the handler reads shipment.tracking_number, which raises
\* again, out of the for loop: the outer handler logs, the session goes with
\* the application context, and the loop sleeps until its next cycle
MonitorCommitFail ==
    /\ mpc = "apply"
    /\ MonitorChanged(mLoaded[mActive[mIdx]], mInfo)
    /\ now' = now + 1
    /\ MonitorBackoff
    /\ mlog' = mlog \cup {<<mActive[mIdx], "error">>, <<mActive[mIdx], "abort">>}
    /\ mInfo' = NoneDict
    /\ UNCHANGED <<db, upstream, nchanges, events, latest, mcycles, refVars,
                   addVars, sockVars, trackVars, detectVars>>

\* lines 946-953, 1007-1010: the store is not available when the shipments
\* are selected; the log entry of the loop itself has record id 0
MonitorSelectFail ==
    /\ mpc = "sleep"
    /\ mcycles < MaxCycles
    /\ mcycles' = mcycles + 1
    /\ MonitorBackoff
    /\ mlog' = mlog \cup {<<0, "abort">>}
    /\ mInfo' = NoneDict
    /\ UNCHANGED <<storeVars, refVars, addVars, sockVars, trackVars, detectVars>>

\* line 960 when the carrier request of this call gets no answer in time
MonitorFetchAbsent ==
    /\ mpc = "fetch"
    /\ LET s == mActive[mIdx]
           row == IF s \in mExpired THEN db[s] ELSE mLoaded[s] IN
       /\ mLoaded' = [mLoaded EXCEPT ![s] = row]
       /\ mExpired' = mExpired \ {s}
       /\ mInfo' = GetTrackingInfo(Timeout)
    /\ mpc' = "apply"
    /\ UNCHANGED <<mlog, storeVars, mcycles, mActive, mIdx, refVars, addVars,
                   sockVars, trackVars, detectVars>>

MonitorFault ==
    \/ MonitorWriteFault
    \/ MonitorRecordError
    \/ MonitorCommitFail
    \/ DeferredRun
    \/ DeferredRunFail

----------------------------------------------------------------------------
(* Manual refresh: refresh_shipments *)

\* line 702: the query; lines 703-704
RefreshStart(u) ==
    /\ rpc \in {"idle", "done"}
    /\ rcount < MaxRefresh
    /\ rcount' = rcount + 1
    /\ rUser' = u
    /\ rShipments' = SortedSeq(RowsOf(u))
    /\ rIdx' = 1
    /\ rLoaded' = [i \in Ids |-> IF i \in RowsOf(u) THEN db[i] ELSE NoneDict]
    /\ rCur' = rLoaded'
    /\ rFetched' = [i \in Ids |-> NoneDict]
    /\ rEv0' = Len(events)
    /\ rErrs' = {}
    /\ updated_count' = 0
    /\ status_changes' = <<>>
    /\ rResp' = [code |-> 0]
    /\ rpc' = IF RowsOf(u) = {} THEN "commit" ELSE "loop"
    /\ UNCHANGED <<storeVars, monVars, addVars, sockVars, trackVars, detectVars>>

\* line 706: the next record, or the commit after the last one
RefreshAdvance ==
    /\ rIdx' = rIdx + 1
    /\ rpc' = IF rIdx < Len(rShipments) THEN "loop" ELSE "commit"

\* lines 709-710
RefreshSkip ==
    /\ rpc = "loop"
    /\ RefreshSkips(rCur[rShipments[rIdx]].status)
    /\ RefreshAdvance
    /\ UNCHANGED <<storeVars, monVars, addVars, sockVars, trackVars, detectVars, rcount, rUser, rShipments,
                   rLoaded, rCur, rFetched, rEv0, rErrs, updated_count,
                   status_changes, rResp>>

\* line 713: the carrier call
RefreshFetch ==
    /\ rpc = "loop"
    /\ LET s == rShipments[rIdx] IN
       /\ ~RefreshSkips(rCur[s].status)
       /\ rFetched' = [rFetched EXCEPT
                          ![s] = GetTrackingInfo(upstream[rCur[s].tracking_number])]
    /\ rpc' = "fetched"
    /\ UNCHANGED <<storeVars, monVars, addVars, sockVars, trackVars, detectVars, rcount, rUser, rShipments,
                   rIdx, rLoaded, rCur, rEv0, rErrs, updated_count,
                   status_changes, rResp>>

\* the entry of status_changes, lines 738-742
StatusChange(row, tracking_info) ==
    [tracking_number |-> row.tracking_number,
     old_status |-> row.status,
     new_status |-> Get(tracking_info, "status", row.status)]

\* lines 715-749 for a snapshot: set the attributes in the session, count,
\* and on a changed status list the change and publish it
RefreshApply ==
    /\ rpc = "fetched"
    /\ LET s == rShipments[rIdx]
           old == rCur[s]
           info == rFetched[s]
           cur == RefreshUpdate(old, info, now) IN
       /\ RefreshWrites(old, info)
       /\ rCur' = [rCur EXCEPT ![s] = cur]
       /\ updated_count' = CountUpdated(updated_count, old, info)
       /\ IF RefreshChanged(old, info)
          THEN /\ status_changes' = Append(status_changes, StatusChange(old, info))
               /\ events' = EmitShipmentUpdate(events, rUser, Serialize(cur),
                                               "manual_refresh")
               /\ PublishTo(rUser, "sent", {})
          ELSE UNCHANGED <<status_changes, events, inbox, deferred, pub>>
    /\ now' = now + 1
    /\ RefreshAdvance
    /\ UNCHANGED <<db, upstream, nchanges, latest, monVars, addVars, sock, trackVars, detectVars, rcount,
                   rUser, rShipments, rLoaded, rFetched, rEv0, rErrs, rResp>>

\* line 715 for an absent snapshot: nothing
RefreshAbsent ==
    /\ rpc = "fetched"
    /\ ~RefreshWrites(rCur[rShipments[rIdx]], rFetched[rShipments[rIdx]])
    /\ RefreshAdvance
    /\ UNCHANGED <<storeVars, monVars, addVars, sockVars, trackVars, detectVars, rcount, rUser, rShipments,
                   rLoaded, rCur, rFetched, rEv0, rErrs, updated_count,
                   status_changes, rResp>>

\* the objects of the refresh session: the rows the query of line 702 loaded
RefreshSession == {rShipments[k] : k \in 1..Len(rShipments)}

\* lines 756-763: the commit of the batch and the summary
RefreshCommit ==
    /\ rpc = "commit"
    /\ db' = Flush(db, RefreshSession, rLoaded, rCur)
    /\ latest' = NoteWrites(latest, RefreshSession, rLoaded, rCur)
    /\ rResp' = [code |-> 200,
                 updated_count |-> updated_count,
                 status_changes |-> status_changes,
                 total_shipments |-> Len(rShipments)]
    /\ rpc' = "done"
    /\ UNCHANGED <<now, upstream, nchanges, events, monVars, addVars, sockVars, trackVars, detectVars, rcount,
                   rUser, rShipments, rIdx, rLoaded, rCur, rFetched, rEv0,
                   rErrs, updated_count, status_changes>>

\* lines 751-753: an exception raised in the body of the loop, either before
\* the attributes are set ("tracking") or by the arguments of the publish
\* call, after the change was listed ("publish"); it is logged and the loop
\* goes on
RefreshRecordError(at) ==
    /\ rpc = "fetched"
    /\ LET s == rShipments[rIdx]
           old == rCur[s]
           info == rFetched[s]
           cur == RefreshUpdate(old, info, now) IN
       IF at = "publish"
       THEN /\ RefreshWrites(old, info)
            /\ RefreshChanged(old, info)
            /\ rCur' = [rCur EXCEPT ![s] = cur]
            /\ updated_count' = CountUpdated(updated_count, old, info)
            /\ status_changes' = Append(status_changes, StatusChange(old, info))
            /\ now' = now + 1
       ELSE UNCHANGED <<rCur, updated_count, status_changes, now>>
    /\ rErrs' = rErrs \cup {"record"}
    /\ RefreshAdvance
    /\ UNCHANGED <<db, upstream, nchanges, events, latest, monVars, addVars, sockVars, trackVars, detectVars,
                   rcount, rUser, rShipments, rLoaded, rFetched, rEv0, rResp>>

\* lines 756, 765-768: the commit raises; rollback and the failure response
RefreshCommitFail ==
    /\ rpc = "commit"
    /\ db' = Rollback(db, RefreshSession, rLoaded, rCur)
    /\ rCur' = rLoaded
    /\ rErrs' = rErrs \cup {"commit"}
    /\ rResp' = [code |-> 500]
    /\ rpc' = "done"
    /\ UNCHANGED <<now, upstream, nchanges, events, latest, monVars, addVars, sockVars, trackVars, detectVars,
                   rcount, rUser, rShipments, rIdx, rLoaded, rFetched, rEv0,
                   updated_count, status_changes>>

RefreshNext ==
    \/ \E u \in Users : RefreshStart(u)
    \/ RefreshSkip
    \/ RefreshFetch
    \/ RefreshApply
    \/ RefreshAbsent
    \/ RefreshCommit

RefreshFault ==
    \/ \E at \in {"tracking", "publish"} : RefreshRecordError(at)
    \/ RefreshCommitFail

----------------------------------------------------------------------------
(* Single-shipment track: track_shipment_endpoint *)

\* lines 650-667: the attributes set for every snapshot
TrackUpdate(row, tracking_info, t) ==
    [row EXCEPT
        !.status = Get(tracking_info, "status", row.status),
        !.carrier = Get(tracking_info, "carrier", row.carrier),
        !.origin = Get(tracking_info, "origin", row.origin),
        !.destination = Get(tracking_info, "destination", row.destination),
        !.estimated_delivery =
            ParseEstimatedDelivery(tracking_info, row.estimated_delivery),
        !.updated_at = t]

\* a faulty variant of TrackQuery: the query has no filter on the owner
TrackQueryAnyOwner(user_id, tracking_number) ==
    {i \in Ids : db[i].tracking_number = tracking_number}

\* lines 630-633: the rows of the query
TrackQuery(user_id, tracking_number) ==
    {i \in Ids : /\ db[i].tracking_number = tracking_number
                 /\ db[i].user_id = user_id}

\* track_shipment_endpoint, from the query to the response
TrackShipment(u, tn) ==
    /\ tcount < MaxTrack
    /\ tcount' = tcount + 1
    /\ tReq' = [user_id |-> u, tracking_number |-> tn]
    /\ tCalls' = IF TrackQuery(u, tn) = {} THEN tCalls ELSE tCalls + 1
    /\ IF TrackQuery(u, tn) = {}
       THEN /\ tResp' = [code |-> 404]
            /\ UNCHANGED <<db, now, events, latest, inbox, deferred, pub>>
       ELSE LET s == SortedSeq(TrackQuery(u, tn))[1]
                info == GetTrackingInfo(upstream[tn]) IN
            IF TruthyDict(info)
            THEN LET cur == TrackUpdate(db[s], info, now)
                     status_changed == info.status # db[s].status IN
                 /\ db' = [db EXCEPT ![s] = cur]
                 /\ latest' = NoteWrites(latest, {s}, db, db')
                 /\ now' = now + 1
                 /\ IF status_changed
                    THEN /\ events' = EmitShipmentUpdate(events, u, Serialize(cur),
                                                         "status_change")
                         /\ PublishTo(u, "sent", {})
                    ELSE UNCHANGED <<events, inbox, deferred, pub>>
                 /\ tResp' = [code |-> 200, updated |-> TRUE,
                              status_changed |-> status_changed,
                              shipment |-> Serialize(cur)]
            ELSE /\ tResp' = [code |-> 200, updated |-> FALSE,
                              status_changed |-> FALSE,
                              shipment |-> Serialize(db[s])]
                 /\ UNCHANGED <<db, now, events, latest, inbox, deferred, pub>>
    /\ UNCHANGED <<upstream, nchanges, monVars, refVars, addVars, sock, detectVars>>

TrackNext == \E u \in Users, tn \in TrackingNumbers : TrackShipment(u, tn)

----------------------------------------------------------------------------
(* ShipEngineAPI._detect_carrier and the call of line 207 *)

\* a string is the sequence of its characters
Digits == {"0", "1", "2", "3", "4", "5", "6", "7", "8", "9"}
Whitespace == {" "}

\* str.upper, on the letters the tracking numbers of the model hold
UpperChar(c) == IF c = "z" THEN "Z" ELSE IF c = "a" THEN "A" ELSE c
Upper(str) == [k \in 1..Len(str) |-> UpperChar(str[k])]

\* str.strip: the whitespace at both ends goes
RECURSIVE Strip(_)
Strip(str) ==
    IF str = <<>> THEN str
    ELSE IF Head(str) \in Whitespace THEN Strip(Tail(str))
    ELSE IF str[Len(str)] \in Whitespace
         THEN Strip(SubSeq(str, 1, Len(str) - 1))
    ELSE str

\* str.isdigit: not empty and digits only
IsDigit(str) == str # <<>> /\ \A k \in 1..Len(str) : str[k] \in Digits

\* str.startswith
StartsWith(str, prefix) ==
    Len(str) >= Len(prefix) /\ SubSeq(str, 1, Len(prefix)) = prefix

\* the condition of lines 250-251
FedexPattern(tn) ==
    \/ Len(tn) = 12 /\ IsDigit(tn)
    \/ Len(tn) \in {14, 20} /\ IsDigit(tn)

\* the condition of line 255
UpsPattern(tn) == StartsWith(tn, <<"1", "Z">>) /\ Len(tn) = 18

\* the condition of lines 259-260
UspsPattern(tn) ==
    \/ Len(tn) \in {20, 22} /\ IsDigit(tn)
    \/ \E prefix \in {<<"9", "4", "0", "0">>, <<"9", "2", "0", "5">>,
                      <<"9", "4", "0", "5">>} : StartsWith(tn, prefix)

\* the condition of line 264
DhlPattern(tn) == Len(tn) = 10 /\ IsDigit(tn)

\* _detect_carrier: the first pattern that matches decides
DetectCarrier(tracking_number) ==
    LET tn == Strip(Upper(tracking_number)) IN
    IF FedexPattern(tn) THEN "fedex"
    ELSE IF UpsPattern(tn) THEN "ups"
    ELSE IF UspsPattern(tn) THEN "stamps_com"
    ELSE IF DhlPattern(tn) THEN "dhl_express"
    ELSE None

\* track_shipment called without a carrier_code, lines 207-218: the carrier
\* code of the request is what _detect_carrier returned
TrackShipmentDetect ==
    /\ dHint = "pending"
    /\ dHint' = DetectCarrier(dTn)
    /\ UNCHANGED <<dTn, storeVars, monVars, refVars, addVars, sockVars,
                   trackVars>>

----------------------------------------------------------------------------
(* Add shipment: handle_shipments, POST *)

Workers == {1, 2}

\* a faulty variant of ShipmentExists: the check of line 568 is left out
ShipmentExistsUnchecked(user_id, tracking_number) == FALSE

\* line 568: a shipment of this user with this tracking number exists
ShipmentExists(user_id, tracking_number) ==
    \E i \in Ids : /\ db[i].user_id = user_id
                   /\ db[i].tracking_number = tracking_number

\* lines 564-580: the existence check and the carrier call
AddCheck(w, u, tn) ==
    /\ apc[w] = "idle"
    /\ Len(db) < MaxRows
    /\ aReq' = [aReq EXCEPT ![w] = [user_id |-> u, tracking_number |-> tn]]
    /\ LET info == GetTrackingInfo(upstream[tn]) IN
       IF ShipmentExists(u, tn)
       THEN /\ aResp' = [aResp EXCEPT ![w] = 400]
            /\ UNCHANGED <<apc, aInfo>>
       ELSE IF ~TruthyDict(info)
       THEN /\ aResp' = [aResp EXCEPT ![w] = 500]
            /\ UNCHANGED <<apc, aInfo>>
       ELSE /\ apc' = [apc EXCEPT ![w] = "checked"]
            /\ aInfo' = [aInfo EXCEPT ![w] = info]
            /\ aResp' = [aResp EXCEPT ![w] = 0]
    /\ UNCHANGED <<storeVars, monVars, refVars, sockVars, trackVars, detectVars>>

\* lines 582-616: the insert, the commit and the new_shipment event
AddInsert(w) ==
    /\ apc[w] = "checked"
    /\ LET row == NewShipment(Len(db) + 1, aReq[w].tracking_number,
                              aReq[w].user_id, aInfo[w], now) IN
       /\ db' = Append(db, row)
       /\ events' = EmitShipmentUpdate(events, aReq[w].user_id, Serialize(row),
                                       "new_shipment")
       /\ PublishTo(aReq[w].user_id, "sent", {})
    /\ latest' = Append(latest, NoneDict)
    /\ now' = now + 1
    /\ apc' = [apc EXCEPT ![w] = "idle"]
    /\ aInfo' = [aInfo EXCEPT ![w] = NoneDict]
    /\ aResp' = [aResp EXCEPT ![w] = 201]
    /\ UNCHANGED <<upstream, nchanges, aReq, monVars, refVars, sock, trackVars, detectVars>>

AddNext ==
    \/ \E w \in Workers, u \in Users, tn \in TrackingNumbers : AddCheck(w, u, tn)
    \/ \E w \in Workers : AddInsert(w)

----------------------------------------------------------------------------
(* Specifications *)

CarrierNext ==
    \E tn \in TrackingNumbers, r \in ApiResponses : CarrierChange(tn, r)

\* the threads and the requests at rest
InitCalls ==
    /\ events = <<>>
    /\ nchanges = 0
    /\ mpc = "sleep" /\ mcycles = 0 /\ mActive = <<>> /\ mIdx = 1
    /\ mLoaded = NoSession /\ mExpired = {} /\ mInfo = NoneDict /\ mlog = {}
    /\ rpc = "idle" /\ rcount = 0 /\ rUser = 1 /\ rShipments = <<>> /\ rIdx = 1
    /\ rLoaded = NoSession /\ rCur = NoSession /\ rFetched = NoSession
    /\ rEv0 = 0 /\ rErrs = {} /\ updated_count = 0 /\ status_changes = <<>>
    /\ rResp = [code |-> 0]
    /\ apc = [w \in Workers |-> "idle"]
    /\ aReq = [w \in Workers |-> [user_id |-> 1, tracking_number |-> "T1"]]
    /\ aInfo = [w \in Workers |-> NoneDict]
    /\ aResp = [w \in Workers |-> 0]
    /\ inbox = [s \in Sessions |-> <<>>]
    /\ deferred = <<>> /\ pub = <<>>
    /\ tcount = 0 /\ tResp = [code |-> 0]
    /\ tReq = [user_id |-> 1, tracking_number |-> "T1"] /\ tCalls = 0

\* the threads and the requests at rest, no call of track_shipment under way
InitRequests ==
    /\ InitCalls
    /\ dTn = <<>> /\ dHint = None

\* the handlers at rest, no client connected
InitHandlers ==
    /\ InitRequests
    /\ sock = [s \in Sessions |-> NewSession]

\* a store holding T1 of user 1 and T2 of user 1 or 2, each as add-shipment
\* created it from the carrier's answer
InitStore ==
    /\ upstream \in [TrackingNumbers -> Payloads]
    /\ \E owner2 \in Users :
         db = <<NewShipment(1, "T1", 1, GetTrackingInfo(upstream["T1"]), 0),
                NewShipment(2, "T2", owner2, GetTrackingInfo(upstream["T2"]), 0)>>
    /\ latest = <<NoneDict, NoneDict>>
    /\ now = 1

Init == InitStore /\ InitHandlers

\* the reconciler and a manual refresh, with a carrier whose answers change
Next == MonitorNext \/ RefreshNext \/ CarrierNext

Spec == Init /\ [][Next]_vars

\* reconciler cycles in succession while the carrier's answers stay the same
InitStable ==
    /\ \E created \in [TrackingNumbers -> Payloads], owner2 \in Users :
         db = <<NewShipment(1, "T1", 1, GetTrackingInfo(created["T1"]), 0),
                NewShipment(2, "T2", owner2, GetTrackingInfo(created["T2"]), 0)>>
    /\ upstream \in [TrackingNumbers -> ApiResponses]
    /\ latest = <<NoneDict, NoneDict>>
    /\ now = 1
    /\ InitHandlers

NextStable == MonitorNext

SpecStable == InitStable /\ [][NextStable]_vars

\* a manual refresh in which a record or the commit may fail
NextRefreshFault == RefreshNext \/ RefreshFault \/ CarrierNext

SpecRefreshFault == Init /\ [][NextRefreshFault]_vars

\* concurrent add-shipment requests on an empty store
InitAdd ==
    /\ upstream \in [TrackingNumbers -> ApiResponses]
    /\ db = <<>>
    /\ latest = <<>>
    /\ now = 0
    /\ InitHandlers

NextAdd == AddNext

SpecAdd == InitAdd /\ [][NextAdd]_vars

\* the reconciler when store, carrier and publishing may fail
InitMonitorFault ==
    /\ \E created \in [TrackingNumbers ->
                         {PayloadTransit, PayloadNoStatus, PayloadDelivered}],
          owner2 \in Users :
         db = <<NewShipment(1, "T1", 1, GetTrackingInfo(created["T1"]), 0),
                NewShipment(2, "T2", owner2, GetTrackingInfo(created["T2"]), 0)>>
    /\ upstream \in [TrackingNumbers ->
                        {PayloadTransit, PayloadException, NoneDict}]
    /\ latest = <<NoneDict, NoneDict>>
    /\ now = 1
    /\ InitHandlers

NextMonitorFault == MonitorNext \/ MonitorFault

SpecMonitorFault == InitMonitorFault /\ [][NextMonitorFault]_vars

\* the reconciler thread under a carrier whose answers stay as they are,
\* while the store and the carrier request fail now and then.  The failures
\* stop: the last cycle of the run has none
MonitorOutage ==
    \/ mcycles + 1 < MaxCycles /\ MonitorSelectFail
    \/ mcycles < MaxCycles /\ MonitorFetchAbsent
    \/ mcycles < MaxCycles /\ MonitorCommitFail

InitMonitorLive ==
    /\ \E created \in [TrackingNumbers ->
                         {PayloadTransit, PayloadNoStatus, PayloadUnknown}],
          owner2 \in Users :
         db = <<NewShipment(1, "T1", 1, GetTrackingInfo(created["T1"]), 0),
                NewShipment(2, "T2", owner2, GetTrackingInfo(created["T2"]), 0)>>
    /\ upstream \in [TrackingNumbers ->
                        {PayloadTransit, PayloadDelivered, PayloadNoStatus}]
    /\ latest = <<NoneDict, NoneDict>>
    /\ now = 1
    /\ InitHandlers

NextMonitorLive == MonitorNext \/ MonitorOutage

\* the thread runs whenever it can
SpecMonitorLive ==
    InitMonitorLive /\ [][NextMonitorLive]_vars /\ WF_vars(NextMonitorLive)

\* the reconciler, a manual refresh and a track request applying snapshots
\* whose estimated delivery may be malformed
InitEta ==
    /\ \E created \in {PayloadTransit, PayloadUnknown} :
         db = <<NewShipment(1, "T1", 1, GetTrackingInfo(PayloadTransit), 0),
                NewShipment(2, "T2", 1, GetTrackingInfo(created), 0)>>
    /\ \E answer \in {PayloadTransit, PayloadException, NoneDict} :
         upstream = [tn \in TrackingNumbers |->
                        IF tn = "T1" THEN PayloadException ELSE answer]
    /\ latest = <<NoneDict, NoneDict>>
    /\ now = 1
    /\ InitHandlers

NextEta == MonitorNext \/ RefreshNext \/ TrackNext

SpecEta == InitEta /\ [][NextEta]_vars

\* the reconciler and a track request under every failure of the carrier
\* request
InitOutage ==
    /\ upstream \in [TrackingNumbers ->
                        RequestFailures \cup
                        {PayloadTransit, PayloadDelivered, PayloadNoStatus}]
    /\ \E owner2 \in Users :
         db = <<NewShipment(1, "T1", 1, GetTrackingInfo(PayloadTransit), 0),
                NewShipment(2, "T2", owner2, GetTrackingInfo(PayloadNoStatus), 0)>>
    /\ latest = <<NoneDict, NoneDict>>
    /\ now = 1
    /\ InitHandlers

NextOutage == MonitorNext \/ TrackNext

SpecOutage == InitOutage /\ [][NextOutage]_vars

\* calls of track_shipment without a carrier_code: tracking numbers made of a
\* prefix and digits or letters up to a length, as typed or with blanks around
SamplePrefixes ==
    {<<>>, <<"9", "4", "0", "0">>, <<"9", "2", "0", "5">>,
     <<"9", "4", "0", "5">>, <<"1", "Z">>, <<"1", "z">>}
SampleLengths == {9, 10, 12, 14, 18, 20, 22, 26}
SampleFill == {"7", "A"}

SampleNumber(prefix, fill, n) ==
    prefix \o [k \in 1..(n - Len(prefix)) |-> fill]

SampleNumbers ==
    LET typed == {SampleNumber(prefix, fill, n) :
                     prefix \in SamplePrefixes, fill \in SampleFill,
                     n \in SampleLengths}
    IN typed \cup {<<" ">> \o tn \o <<" ">> : tn \in typed}

InitDetect ==
    /\ upstream = [tn \in TrackingNumbers |-> PayloadTransit]
    /\ db = <<>>
    /\ latest = <<>>
    /\ now = 0
    /\ InitCalls
    /\ sock = [s \in Sessions |-> NewSession]
    /\ dTn \in SampleNumbers
    /\ dHint = "pending"

NextDetect == TrackShipmentDetect

SpecDetect == InitDetect /\ [][NextDetect]_vars

\* a manual refresh, with its failures, beside the reconciler, on records
\* stored with a terminal status in several casings, with a null and with an
\* empty status
StoredStatuses ==
    {"In Transit", "Delivered", "DeLiVeReD", "exception", "EXCEPTION", None, ""}

InitSkip ==
    /\ \E created \in [TrackingNumbers -> StoredStatuses], owner2 \in Users :
         db = <<NewShipment(1, "T1", 1,
                            GetTrackingInfo(PayloadStatus(created["T1"])), 0),
                NewShipment(2, "T2", owner2,
                            GetTrackingInfo(PayloadStatus(created["T2"])), 0)>>
    /\ upstream \in [TrackingNumbers -> {PayloadTransit, NoneDict}]
    /\ latest = <<NoneDict, NoneDict>>
    /\ now = 1
    /\ InitHandlers

NextSkip == RefreshNext \/ RefreshFault \/ MonitorNext

SpecSkip == InitSkip /\ [][NextSkip]_vars

\* the reconciler, a manual refresh whose records or commit may fail and a
\* track request, all for shipment T1 of user 1, whose sessions 1 and 2 are
\* connected; session 3 is a session of user 2
ConnectedAs(user, token) ==
    [state |-> "connected", user |-> user, rooms |-> {UserRoom(user)},
     token |-> token]

InitNotify ==
    /\ \E answer \in {PayloadDelivered, PayloadException, Timeout},
          owner2 \in Users :
         /\ upstream = [tn \in TrackingNumbers |->
                           IF tn = "T1" THEN answer ELSE PayloadDelivered]
         /\ db = <<NewShipment(1, "T1", 1, GetTrackingInfo(PayloadTransit), 0),
                   NewShipment(2, "T2", owner2,
                               GetTrackingInfo(PayloadDelivered), 0)>>
    /\ latest = <<NoneDict, NoneDict>>
    /\ now = 1
    /\ InitRequests
    /\ sock = [s \in Sessions |->
                  IF s = 3 THEN ConnectedAs(2, "jwt-user2")
                  ELSE ConnectedAs(1, "jwt-user1")]

NextNotify == MonitorNext \/ RefreshNext \/ RefreshFault \/ TrackNext

SpecNotify == InitNotify /\ [][NextNotify]_vars

\* sessions connect, join and disconnect while handlers publish
InitSocket ==
    /\ upstream = [tn \in TrackingNumbers |-> PayloadTransit]
    /\ db = <<NewShipment(1, "T1", 1, GetTrackingInfo(upstream["T1"]), 0),
              NewShipment(2, "T2", 2, GetTrackingInfo(upstream["T2"]), 0)>>
    /\ latest = <<NoneDict, NoneDict>>
    /\ now = 1
    /\ InitHandlers

\* the payloads of join_shipment_updates: no dict, no token, a token of
\* either user, a token that is not valid
JoinPayloads ==
    {NoneDict, EmptyDict} \cup
    {[token |-> t] : t \in {"jwt-user1", "jwt-user2", "jwt-user2-forged"}}

ConnectNext(S, payloads) ==
    \/ \E s \in S, auth \in payloads : HandleConnect(s, auth)
    \/ \E s \in S : HandleDisconnect(s)

JoinNext(S) ==
    \E s \in S, data \in JoinPayloads : HandleJoinShipmentUpdates(s, data)

\* two sessions, with every credential
SocketNext == ConnectNext({1, 2}, AuthPayloads) \/ JoinNext({1, 2})

\* the calls of emit_shipment_update whose direct emit is done or is left to
\* the background task
PublishNext ==
    \/ \E u \in Users, i \in Ids, how \in {"sent", "deferred"} :
          EmitShipmentUpdateCall(u, i, "status_change", how, {})
    \/ DeferredRun

NextSocket == SocketNext \/ PublishNext

\* the background task is a thread, started at once
SpecSocket == InitSocket /\ [][NextSocket]_vars /\ WF_vars(DeferredRun)

\* the same when emits raise and the transport of a session fails
PublishFaultNext ==
    \/ \E u \in Users, i \in Ids, how \in PublishOutcomes :
          \E lost \in SUBSET Room(UserRoom(u)) :
             EmitShipmentUpdateCall(u, i, "status_change", how, lost)
    \/ DeferredRun
    \/ DeferredRunFail

\* three sessions, with a credential of either user or none
ConnectFaultNext ==
    ConnectNext(Sessions, {NoneDict, [token |-> "jwt-user1"],
                           [token |-> "jwt-user2"]})

NextSocketFault == ConnectFaultNext \/ PublishFaultNext

SpecSocketFault == InitSocket /\ [][NextSocketFault]_vars

----------------------------------------------------------------------------
(* Vocabulary of the claims *)

\* a terminal status: delivered or exception, in any casing
TerminalStatus(status) ==
    Truthy(status) /\ Lower(status) \in {"delivered", "exception"}

\* the reconciler starts a cycle (the query of lines 948-953)
MonitorSelectStep == mpc = "sleep" /\ mcycles' = mcycles + 1

\* the reconciler finishes a record it polled (lines 962-997)
MonitorApplyStep == mpc = "apply" /\ mpc' # "apply"

\* manual refresh finishes a record it polled (lines 715-753)
RefreshApplyStep == rpc = "fetched" /\ rpc' # "fetched"

\* the events a manual refresh published since the request started
RefreshEvents ==
    SelectSeq(SubSeq(events, rEv0 + 1, Len(events)),
              LAMBDA e : e.type = "manual_refresh")

MergeFields == {"carrier", "origin", "destination", "estimated_delivery"}

\* the elements of a sequence
Range(seq) == {seq[k] : k \in 1..Len(seq)}

\* a step of the manual refresh
RefreshStep == refVars' # refVars

\* the reconciler goes on with the record after the current one, or ends the
\* cycle after the last one
MonitorGoesOn ==
    IF mIdx < Len(mActive)
    THEN mpc' = "fetch" /\ mIdx' = mIdx + 1 /\ mActive' = mActive
    ELSE mpc' = "sleep" /\ mcycles' = mcycles

\* a snapshot whose estimated delivery is no timestamp
MalformedEta(tracking_info) ==
    /\ TruthyDict(tracking_info)
    /\ tracking_info.estimated_delivery = "not-a-date"

\* a call of emit_shipment_update is made in this step; it is events'[Len(events')]
PublishStep == Len(events') = Len(events) + 1

\* a background task of emit_shipment_update ends in this step
DeferredStep == Len(deferred') < Len(deferred)

\* the live sessions that authenticated as user u at connect
SessionsOf(u) == {s \in Sessions : sock[s].state = "connected" /\ sock[s].user = u}

\* the credentials that are missing, not valid, expired or of no user
BadCredentials == {None, "", "garbage", "jwt-user1-expired", "jwt-user2-forged",
                   "jwt-user3", "jwt-no-user-id"}

----------------------------------------------------------------------------
(* C1: no reconciler cycle selects a shipment whose stored status is      *)
(* "delivered" or "exception" in any casing.                              *)
C1_TerminalNeverSelected ==
    [][MonitorSelectStep =>
         \A k \in 1..Len(mActive') : ~TerminalStatus(db[mActive'[k]].status)]_vars

(* C2: merge-on-present: when the reconciler applies a snapshot in which  *)
(* carrier, origin, destination or estimated_delivery is None, the stored *)
(* field is the same after the step as before it.                         *)
C2_MergeOnPresent ==
    [][(MonitorApplyStep /\ TruthyDict(mInfo)) =>
         \A f \in MergeFields :
            mInfo[f] = None => db'[mActive[mIdx]][f] = db[mActive[mIdx]][f]]_vars

C4_SecondCycleIdle ==
    [][mcycles >= 2 => (db' = db /\ events' = events)]_vars

\* the second cycle polls, with a snapshot, a record the first cycle wrote
C4_Witness ==
    /\ mcycles = 2
    /\ mpc = "apply"
    /\ TruthyDict(mInfo)
    /\ latest[mActive[mIdx]] # NoneDict

(* C5: when a manual refresh and a reconciler cycle both update a         *)
(* shipment, the stored record equals, in all fields, the write whose     *)
(* updated_at is the latest.                                              *)
C5_LatestWriteStored ==
    \A i \in Ids : latest[i] # NoneDict => db[i] = latest[i]

(* C6: the store holds at most one shipment per (owner, tracking number). *)
C6_UniquePerOwner ==
    \A i \in Ids : \A j \in Ids :
        (db[i].user_id = db[j].user_id
         /\ db[i].tracking_number = db[j].tracking_number) => i = j

\* a finished refresh that read T1 "In Transit" and T2 "Delivered" and got
\* "Delivered" from the carrier for T1
C7_Scenario ==
    /\ rpc = "done"
    /\ Len(rShipments) = 2
    /\ rLoaded[rShipments[1]].tracking_number = "T1"
    /\ rLoaded[rShipments[1]].status = "In Transit"
    /\ rLoaded[rShipments[2]].tracking_number = "T2"
    /\ rLoaded[rShipments[2]].status = "Delivered"
    /\ TruthyDict(rFetched[rShipments[1]])
    /\ rFetched[rShipments[1]].status = "Delivered"

(* C7: manual refresh of an owner holding T1 "In Transit" and T2          *)
(* "Delivered", the carrier answering "Delivered" for T1: the summary is  *)
(* updated_count 1, status_changes [(T1, In Transit, Delivered)],         *)
(* total_shipments 2; one manual_refresh event, for T1; T2 is untouched.  *)
C7_RefreshSummary ==
    C7_Scenario =>
        /\ rResp = [code |-> 200,
                    updated_count |-> 1,
                    status_changes |->
                        <<[tracking_number |-> "T1", old_status |-> "In Transit",
                           new_status |-> "Delivered"]>>,
                    total_shipments |-> 2]
        /\ Len(RefreshEvents) = 1
        /\ RefreshEvents[1].user_id = rUser
        /\ RefreshEvents[1].shipment.tracking_number = "T1"
        /\ RefreshEvents[1].shipment.status = "Delivered"
        /\ rCur[rShipments[2]] = rLoaded[rShipments[2]]
        /\ rFetched[rShipments[2]] = NoneDict

\* the scenario was refreshed and answered
C7_Witness == C7_Scenario /\ rResp.code = 200 /\ rUser = 1

(* C8: in the summary of a successful manual refresh, updated_count is    *)
(* the number of entries of status_changes, which is the number of        *)
(* manual_refresh events published; total_shipments is the number of the  *)
(* owner's shipments.                                                     *)
C8_CountIsChanges ==
    (rpc = "done" /\ rResp.code = 200) =>
        /\ rResp.updated_count = Len(rResp.status_changes)
        /\ Len(rResp.status_changes) = Len(RefreshEvents)
        /\ rResp.total_shipments = Cardinality(RowsOf(rUser))

(* C9: for a record whose fetched status equals its stored status, manual *)
(* refresh writes nothing (carrier, origin, destination,                  *)
(* estimated_delivery and updated_at stay), as the reconciler's rule      *)
(* would on the same record and snapshot.                                 *)
C9_RefreshWritesNothingOnSameStatus ==
    [][RefreshApplyStep =>
         LET s == rShipments[rIdx]
             info == rFetched[s] IN
         (TruthyDict(info) /\ info.status = rCur[s].status) =>
            /\ ~MonitorChanged(rCur[s], info)
            /\ rCur'[s] = rCur[s]]_vars

C11_RefreshOnlyOwner ==
    [][RefreshStep =>
         /\ \A i \in Ids :
               db[i].user_id # rUser' =>
                  /\ db'[i] = db[i]
                  /\ rFetched'[i] = NoneDict
                  /\ rCur'[i] = NoneDict
         /\ \A n \in (Len(events) + 1)..Len(events') :
               /\ events'[n].user_id = rUser'
               /\ db[events'[n].shipment.id].user_id = rUser']_vars

\* owner 1 refreshed, a record of owner 1 changed and was published, and
\* the store holds a record of owner 2
C11_Witness ==
    /\ rpc = "done"
    /\ rResp.code = 200
    /\ rUser = 1
    /\ db[1] # rLoaded[1]
    /\ RefreshEvents # <<>>
    /\ db[2].user_id = 2

(* C12: a snapshot whose estimated delivery does not parse ("not-a-date") *)
(* fails no operation: the reconciler step, the manual refresh and the    *)
(* track request keep the stored estimated_delivery and apply the status  *)
(* of the snapshot; the reconciler goes on with the rest of its cycle,    *)
(* the refresh answers with its summary and the track request with 200.   *)
C12_MalformedEtaKept ==
    [][/\ (MonitorApplyStep /\ MalformedEta(mInfo)) =>
            LET s == mActive[mIdx] IN
            /\ db'[s].estimated_delivery = db[s].estimated_delivery
            /\ mInfo.status # mLoaded[s].status =>
                  /\ db'[s].status = mInfo.status
                  /\ db'[s].updated_at = now
            /\ mlog' = mlog
            /\ MonitorGoesOn
       /\ (RefreshApplyStep /\ MalformedEta(rFetched[rShipments[rIdx]])) =>
            LET s == rShipments[rIdx] IN
            /\ rCur'[s].estimated_delivery = rCur[s].estimated_delivery
            /\ rCur'[s].status = rFetched[s].status
            /\ rErrs' = rErrs
            /\ updated_count' = updated_count + 1
       /\ (rpc = "commit" /\ rpc' = "done") =>
            /\ rResp'.code = 200
            /\ \A i \in Range(rShipments) :
                  MalformedEta(rFetched[i]) =>
                     /\ db'[i].estimated_delivery = db[i].estimated_delivery
                     /\ db'[i].status = rFetched[i].status
       /\ (tcount' = tcount + 1 /\ tResp'.code # 404
            /\ MalformedEta(GetTrackingInfo(
                   upstream[tResp'.shipment.tracking_number]))) =>
            LET s == tResp'.shipment.id IN
            /\ tResp'.code = 200
            /\ tResp'.updated
            /\ db'[s].estimated_delivery = db[s].estimated_delivery
            /\ db'[s].status = "exception"]_vars

\* the reconciler wrote the status of a snapshot with a malformed estimated
\* delivery, the timestamp stored before is still there, and the cycle goes
\* on with the second record
C12_Witness ==
    /\ mpc = "fetch"
    /\ mIdx = 2
    /\ db[1].status = "exception"
    /\ db[1].estimated_delivery = "2025-01-02 00:00:00+00:00"
    /\ latest[1] # NoneDict

(* C13: when the carrier client returns absent for a shipment in a        *)
(* reconciler cycle, no stored field changes, no event is published, no   *)
(* error is logged and the cycle goes on with the next record; the next   *)
(* cycle selects the shipment again.                                      *)
C13_AbsentSkipsThisCycleOnly ==
    [][/\ (MonitorApplyStep /\ mInfo = NoneDict) =>
            /\ db' = db
            /\ events' = events
            /\ \A e \in mlog' \ mlog : e[2] = "absent"
            /\ MonitorGoesOn
       /\ MonitorSelectStep =>
            \A e \in mlog : e[2] = "absent" => e[1] \in Range(mActive')]_vars

\* the second cycle polls a shipment for which the first got no answer
C13_Witness ==
    /\ mcycles = 2
    /\ mpc = "apply"
    /\ <<mActive[mIdx], "absent">> \in mlog

(* C14: an event published for owner U reaches a session if and only if   *)
(* the session is connected and authenticated as U at connect; a session  *)
(* of another user never receives it, whatever token it sent with         *)
(* join_shipment_updates.                                                 *)
C14_DeliveredToOwnerSessions ==
    [][/\ (PublishStep /\ pub'[Len(pub')].outcome = "sent") =>
            \A s \in Sessions :
               IF s \in SessionsOf(events'[Len(events')].user_id)
               THEN inbox'[s] = Append(inbox[s], Len(events'))
               ELSE inbox'[s] = inbox[s]
       /\ DeferredStep =>
            \A s \in Sessions :
               IF s \in SessionsOf(events[Head(deferred)].user_id)
               THEN inbox'[s] = Append(inbox[s], Head(deferred))
               ELSE inbox'[s] = inbox[s]
       /\ (~PublishStep /\ ~DeferredStep) => inbox' = inbox]_vars

\* a session of user 1 that joined with the token of user 2 got nothing of
\* the event of user 2 that the session of user 2 received
C14_Witness ==
    /\ sock[1].state = "connected" /\ sock[1].user = 1
    /\ ShipmentsRoom(2) \in sock[1].rooms
    /\ sock[2].state = "connected" /\ sock[2].user = 2
    /\ events # <<>> /\ events[1].user_id = 2
    /\ inbox[1] = <<>>
    /\ inbox[2] = <<1>>

(* C15: a connection attempt with a missing, invalid or expired token, or *)
(* a token of no existing user, is rejected: the session is in no room    *)
(* and receives no shipment_update event.                                 *)
C15_BadCredentialRejected ==
    \A s \in Sessions :
       /\ (sock[s].state \in {"connected", "rejected"}
           /\ sock[s].token \in BadCredentials) => sock[s].state = "rejected"
       /\ sock[s].state = "rejected" =>
             /\ sock[s].rooms = {}
             /\ inbox[s] = <<>>
             /\ \A u \in Users : s \notin Room(UserRoom(u))

\* a session was rejected with the expired token of user 1, and an event
\* of user 1 reached the other session
C15_Witness ==
    /\ sock[1].state = "rejected"
    /\ sock[1].token = "jwt-user1-expired"
    /\ events # <<>> /\ events[1].user_id = 1
    /\ inbox[2] = <<1>>

C17_PublishFailureContained ==
    [][/\ (PublishStep /\ pub'[Len(pub')].outcome # "sent" /\ mpc = "apply") =>
            LET s == mActive[mIdx] IN
            /\ db'[s].status = mInfo.status
            /\ db'[s].updated_at = now
            /\ mlog' = mlog
            /\ MonitorGoesOn
       /\ DeferredStep => (db' = db /\ monVars' = monVars)]_vars

\* the emit for the first record of a cycle failed, the status is stored
\* and the reconciler polls the second record
C17_Witness ==
    /\ mpc = "fetch"
    /\ mIdx = 2
    /\ pub # <<>>
    /\ pub[Len(pub)].outcome = "failed"
    /\ db[mActive[1]].status = events[Len(events)].shipment.status
    /\ mlog = {}

C19_EveryCycleSelectsAllActive ==
    [][MonitorSelectStep =>
         \A i \in Ids :
            (db[i].status = None \/ ~TerminalStatus(db[i].status)) =>
               i \in Range(mActive')]_vars

\* the second cycle polls a shipment with a null status that got an error
\* in the first, in a store of two owners
C19_Witness ==
    /\ mcycles = 2
    /\ mpc = "apply"
    /\ db[mActive[mIdx]].status = None
    /\ <<mActive[mIdx], "error">> \in mlog
    /\ db[1].user_id # db[2].user_id

(* C20: an error raised while the reconciler processes a record does not  *)
(* end the reconciler and does not abort the cycle: the records selected  *)
(* after it are still polled in the cycle and what was committed before   *)
(* stays stored.                                                          *)
C20_ErrorDoesNotAbortCycle ==
    [][(mpc = "apply" /\ \E e \in mlog' \ mlog : e[2] = "error") =>
         /\ MonitorGoesOn
         /\ db' = db]_vars

\* the status the carrier reports for shipment i
CarrierStatus(i) == GetTrackingInfo(upstream[db[i].tracking_number]).status

\* an event published for shipment i with this status
EventFor(i, status) ==
    \E n \in 1..Len(events) :
       /\ events[n].shipment.id = i
       /\ events[n].shipment.status = status
       /\ events[n].user_id = db[i].user_id

(* C21: the reconciler loop never ends: the thread is always asleep or at  *)
(* a record of a cycle; a failure of the outer loop body (the query, or a  *)
(* commit whose error leaves the for loop) is logged and leaves the thread *)
(* asleep; and as long as the thread is scheduled another cycle begins.    *)
C21_LoopNeverEnds ==
    /\ [](mpc \in {"sleep", "fetch", "apply"})
    /\ [][(\E e \in mlog' \ mlog : e[2] = "abort") => mpc' = "sleep"]_vars
    /\ \A n \in 0..(MaxCycles - 1) : (mcycles = n) ~> (mcycles = n + 1)

\* the query of the first cycle failed, and the loop is in its second cycle
C21_Witness ==
    /\ <<0, "abort">> \in mlog
    /\ mcycles = 2
    /\ mpc = "apply"

(* C22: under carrier answers that stay as they are, with the reconciler   *)
(* scheduled and the failures of store and carrier request ending, every   *)
(* shipment whose stored status is not terminal and differs from the       *)
(* status s the carrier reports gets the stored status s, and an event     *)
(* carrying s is published for it to its owner.                            *)
C22_EventuallyConsistent ==
    \A i \in 1..2 :
       (~TerminalStatus(db[i].status) /\ db[i].status # CarrierStatus(i))
          ~> (db[i].status = CarrierStatus(i) /\ EventFor(i, CarrierStatus(i)))

\* a shipment whose commit failed in the first cycle was brought to the
\* carrier's status in the second
C22_Witness ==
    /\ \E i \in 1..2 :
          /\ <<i, "abort">> \in mlog
          /\ db[i].status = CarrierStatus(i)
          /\ EventFor(i, CarrierStatus(i))
          /\ latest[i] # NoneDict
    /\ mcycles = 2

\* two events for one transition of one shipment, one from the manual
\* refresh and one from the reconciler
Twin(a, b) ==
    /\ a.shipment.id = b.shipment.id
    /\ a.shipment.status = b.shipment.status
    /\ {a.type, b.type} = {"manual_refresh", "status_change_auto"}

(* C23: a manual refresh and a reconciler cycle that poll the same         *)
(* shipment can both publish its transition: when the second of the two    *)
(* events is published, every session of the owner that holds the first    *)
(* receives the second as well, and a reconciler that publishes second     *)
(* read the same old status and fetched the same new status as the         *)
(* refresh listed in its status_changes.                                   *)
C23_RaceDuplicates ==
    [][PublishStep =>
         LET n == Len(events')
             e == events'[n] IN
         \A k \in (rEv0 + 1)..Len(events) :
            Twin(events[k], e) =>
               /\ \A s \in SessionsOf(e.user_id) :
                     /\ k \in Range(inbox[s])
                     /\ inbox'[s] = Append(inbox[s], n)
               /\ e.type = "status_change_auto" =>
                     \E c \in Range(status_changes) :
                        /\ c.tracking_number = e.shipment.tracking_number
                        /\ c.old_status = mLoaded[e.shipment.id].status
                        /\ c.new_status = e.shipment.status]_vars

\* the refresh listed In Transit -> s for T1 and published it, the
\* reconciler published the same status for T1, and both sessions of the
\* owner hold the two events
C23_Witness ==
    /\ Len(events) = 2
    /\ Twin(events[1], events[2])
    /\ events[1].type = "manual_refresh"
    /\ events[1].shipment.id = 1
    /\ status_changes =
          <<[tracking_number |-> "T1", old_status |-> "In Transit",
             new_status |-> events[2].shipment.status]>>
    /\ inbox[1] = <<1, 2>> /\ inbox[2] = <<1, 2>> /\ inbox[3] = <<>>

\* a step of the reconciler thread
MonitorStep == monVars' # monVars

(* C24: a reconciler cycle is the work of one thread on one record at a    *)
(* time.  The carrier call for a record starts when nothing of an earlier  *)
(* record is pending and changes neither store nor events; the step that   *)
(* ends a record writes that record only and makes at most one call of     *)
(* emit_shipment_update, for that record; then the loop is at the next     *)
(* position of the selection, whose records are all different, or the      *)
(* cycle is over.  So a record is polled at most once in a cycle and gets  *)
(* at most one event.                                                      *)
C24_OneRecordAtATime ==
    [][/\ (MonitorStep /\ mpc = "fetch") =>
            /\ mInfo = NoneDict
            /\ mpc' = "apply" /\ mIdx' = mIdx /\ mActive' = mActive
            /\ db' = db /\ events' = events
       /\ (MonitorStep /\ mpc = "apply") =>
            /\ \/ mpc' = "fetch" /\ mIdx' = mIdx + 1 /\ mActive' = mActive
               \/ mpc' = "sleep" /\ mActive' = <<>>
            /\ mInfo' = NoneDict
            /\ \A i \in Ids \ {mActive[mIdx]} : db'[i] = db[i]
            /\ Len(events') <= Len(events) + 1
            /\ \A n \in (Len(events) + 1)..Len(events') :
                  events'[n].shipment.id = mActive[mIdx]
       /\ (MonitorStep /\ mpc = "sleep") =>
            /\ db' = db /\ events' = events
            /\ \A j, k \in 1..Len(mActive') : mActive'[j] = mActive'[k] => j = k
       /\ (~MonitorStep /\ events' # events) =>
            events'[Len(events')].type # "status_change_auto"]_vars

\* the first record of a cycle was written and got its one event, and the
\* carrier has been called for the second
C24_Witness ==
    /\ mpc = "apply"
    /\ mIdx = 2
    /\ mcycles = 1
    /\ Len(events) = 1
    /\ events[1].shipment.id = mActive[1]
    /\ db[mActive[1]].status = events[1].shipment.status
    /\ mInfo # NoneDict

\* the fields of a record that hold what the carrier reported
DataFields == {"carrier", "status", "origin", "destination", "estimated_delivery"}

(* C25: no step deletes a shipment record or changes its created_at; a     *)
(* step that changes carrier, status, origin, destination or               *)
(* estimated_delivery of a record is a step of the reconciler or of a      *)
(* manual refresh, and it sets updated_at as well.                         *)
C25_OnlyReconcilerOrRefreshWrites ==
    [][/\ Len(db') >= Len(db)
       /\ \A i \in Ids :
             /\ db'[i].created_at = db[i].created_at
             /\ (\E f \in DataFields : db'[i][f] # db[i][f]) =>
                   /\ MonitorStep \/ RefreshStep
                   /\ db'[i].updated_at # db[i].updated_at]_vars

\* the keys of a snapshot
SnapshotKeys == {"carrier", "status", "origin", "destination", "estimated_delivery"}

\* a call of get_tracking_info by the track request is made in this step
TrackCallStep == tcount' = tcount + 1 /\ tResp'.code # 404

(* C26: get_tracking_info returns to its caller whatever the carrier       *)
(* request does, and changes nothing: a reconciler step that calls it      *)
(* leaves store, events and log as they are and goes on to compare; the    *)
(* result is absent for every failure of the request (a response that is   *)
(* not 2xx, as without an API key; a timeout; no connection; a body that   *)
(* is no JSON, no object, empty or malformed) and a snapshot of five keys  *)
(* otherwise.  A track request answers 200 either way and writes only      *)
(* when it got a snapshot.                                                 *)
C26_ClientNeverRaises ==
    [][/\ (MonitorStep /\ mpc = "fetch") =>
            LET outcome == upstream[db[mActive[mIdx]].tracking_number] IN
            /\ mpc' = "apply"
            /\ storeVars' = storeVars
            /\ mlog' = mlog
            /\ IF outcome \in RequestFailures
               THEN mInfo' = NoneDict
               ELSE /\ DOMAIN mInfo' = SnapshotKeys
                    /\ mInfo'.status = outcome.status_description
       /\ TrackCallStep =>
            LET outcome == upstream[tResp'.shipment.tracking_number] IN
            /\ tResp'.code = 200
            /\ tResp'.updated = (outcome \notin RequestFailures)
            /\ outcome \in RequestFailures => (db' = db /\ events' = events)]_vars

\* in one cycle the reconciler got absent for a request answered 401 and
\* for one whose body was no JSON
C26_Witness ==
    /\ upstream["T1"] = HttpError(401)
    /\ upstream["T2"] = BadJsonValueError
    /\ mpc = "apply" /\ mIdx = 2
    /\ mInfo = NoneDict
    /\ <<1, "absent">> \in mlog

\* user u owns a shipment with this tracking number
Owns(u, tn) ==
    \E i \in Ids : db[i].user_id = u /\ db[i].tracking_number = tn

\* worker w of add-shipment takes a request in this step
AddCheckStep(w) ==
    /\ apc[w] = "idle"
    /\ <<apc'[w], aReq'[w], aResp'[w]>> # <<apc[w], aReq[w], aResp[w]>>

\* worker w of add-shipment inserts and answers in this step
AddInsertStep(w) == apc[w] = "checked" /\ apc'[w] = "idle"

(* C27: a POST /api/shipments for a tracking number the requesting user    *)
(* owns already is answered 400, and one for which the carrier client      *)
(* returns absent 500; neither changes the store or publishes.  A request  *)
(* that succeeds (201) appends exactly one record, of the requesting user  *)
(* and with the requested tracking number, and publishes exactly one       *)
(* event, tagged new_shipment, for that user, carrying the record as it    *)
(* is stored.                                                              *)
C27_AddShipment ==
    [][\A w \in Workers :
         /\ AddCheckStep(w) =>
               LET u == aReq'[w].user_id
                   tn == aReq'[w].tracking_number IN
               /\ db' = db /\ events' = events /\ inbox' = inbox
               /\ Owns(u, tn) => (aResp'[w] = 400 /\ apc'[w] = "idle")
               /\ (~Owns(u, tn) /\ upstream[tn] \in RequestFailures) =>
                     (aResp'[w] = 500 /\ apc'[w] = "idle")
         /\ AddInsertStep(w) =>
               /\ aResp'[w] = 201
               /\ Len(db') = Len(db) + 1
               /\ SubSeq(db', 1, Len(db)) = db
               /\ db'[Len(db')].user_id = aReq[w].user_id
               /\ db'[Len(db')].tracking_number = aReq[w].tracking_number
               /\ Len(events') = Len(events) + 1
               /\ SubSeq(events', 1, Len(events)) = events
               /\ events'[Len(events')] =
                     [user_id |-> aReq[w].user_id, type |-> "new_shipment",
                      shipment |-> Serialize(db'[Len(db')])]]_vars

\* T1 was added for user 1 and published, a second request of user 1 for
\* T1 was answered 400, and one for T2, for which the carrier has no
\* answer, 500
C27_Witness ==
    /\ Len(db) = 1 /\ Owns(1, "T1")
    /\ Len(events) = 1 /\ events[1].type = "new_shipment"
    /\ aResp[1] = 400 /\ aReq[1] = [user_id |-> 1, tracking_number |-> "T1"]
    /\ aResp[2] = 500 /\ aReq[2] = [user_id |-> 1, tracking_number |-> "T2"]
    /\ upstream["T2"] = NoneDict


\* the carrier codes whose pattern of lines 250-265 the number matches
MatchingCarriers(tn) ==
    {c \in {"fedex", "ups", "stamps_com", "dhl_express"} :
        \/ c = "fedex" /\ FedexPattern(tn)
        \/ c = "ups" /\ UpsPattern(tn)
        \/ c = "stamps_com" /\ UspsPattern(tn)
        \/ c = "dhl_express" /\ DhlPattern(tn)}

\* C28: _detect_carrier returns a carrier code only when the pattern of
\* exactly one carrier matches the tracking number, and no carrier hint when
\* none matches or more than one does
C28_HintOnlyWhenOneCarrierMatches ==
    dHint # "pending" =>
        LET m == MatchingCarriers(Strip(Upper(dTn))) IN
        dHint = IF Cardinality(m) = 1 THEN CHOOSE c \in m : TRUE ELSE None


(* C29: an event that reaches a session carries a change that was          *)
(* committed when the event was emitted: in the step that publishes an     *)
(* event to a session, the stored record has the status of the event's    *)
(* snapshot.                                                               *)
C29_EventsCarryCommittedChanges ==
    [][PublishStep =>
         LET n == Len(events')
             e == events'[n] IN
         (\E s \in Sessions : n \in Range(inbox'[s])) =>
            db'[e.shipment.id].status = e.shipment.status]_vars


(* C30: terminal status is absorbing: once the stored status of a          *)
(* shipment is "delivered" or "exception" in any casing, no step changes   *)
(* a field of the record or publishes an event for it.                     *)
C30_TerminalIsAbsorbing ==
    [][\A i \in DOMAIN db :
          TerminalStatus(db[i].status) =>
             /\ db'[i] = db[i]
             /\ PublishStep => events'[Len(events')].shipment.id # i]_vars


\* the shipments of the refresh session that were loaded with a terminal
\* status
RefreshTerminal ==
    {s \in RefreshSession : TerminalStatus(rLoaded[s].status)}

(* C31: manual refresh skips the shipments of the owner whose status is    *)
(* "delivered" or "exception" in any casing.  At such a record the loop    *)
(* goes to the next one without a carrier call, a write, an event or a     *)
(* count; at a record whose status is null or empty it makes the carrier   *)
(* call.  The commit leaves the stored record of a skipped shipment as it  *)
(* is, the summary lists no change for it and does not count it in         *)
(* updated_count, and total_shipments counts it.                           *)
C31_RefreshSkipsTerminal ==
    [][/\ (rpc = "loop" /\ RefreshStep) =>
            LET s == rShipments[rIdx] IN
            /\ s \in RefreshTerminal =>
                  /\ rpc' # "fetched" /\ rIdx' = rIdx + 1
                  /\ rFetched' = rFetched /\ rCur' = rCur
                  /\ db' = db /\ events' = events
                  /\ updated_count' = updated_count
                  /\ status_changes' = status_changes
            /\ ~Truthy(rLoaded[s].status) =>
                  /\ rpc' = "fetched" /\ rIdx' = rIdx
       /\ (rpc = "commit" /\ RefreshStep) =>
            /\ \A s \in RefreshTerminal :
                  /\ db'[s] = db[s]
                  /\ rFetched[s] = NoneDict
                  /\ \A e \in Range(RefreshEvents) : e.shipment.id # s
                  /\ \A c \in Range(status_changes) :
                        c.tracking_number # rLoaded[s].tracking_number
            /\ rResp'.code = 200 =>
                  /\ rResp'.total_shipments = Cardinality(RowsOf(rUser))
                  /\ RefreshTerminal \subseteq RowsOf(rUser)
                  /\ rResp'.updated_count <=
                        Cardinality(RowsOf(rUser) \ RefreshTerminal)]_vars

\* a refresh of user 1 answered: T1, loaded with a null or an empty status,
\* was polled and written; T2, loaded as "DeLiVeReD" or "EXCEPTION", was
\* skipped although the carrier has another status for it
C31_Witness ==
    /\ rpc = "done" /\ rResp.code = 200 /\ rUser = 1
    /\ rShipments = <<1, 2>>
    /\ ~Truthy(rLoaded[1].status)
    /\ rLoaded[2].status \in {"DeLiVeReD", "EXCEPTION"}
    /\ TruthyDict(rFetched[1])
    /\ TruthyDict(GetTrackingInfo(upstream["T2"]))
    /\ rResp.updated_count = 1 /\ rResp.total_shipments = 2
    /\ db[1].status = "In Transit"
    /\ db[2] = rLoaded[2]


\* the track endpoint serves a request in this step
TrackStep == tcount' = tcount + 1

(* C32: a track request of a user for a tracking number the user does not  *)
(* own is answered not-found, the same answer whether or not another user  *)
(* owns the number, with no call of the carrier client, no change of a     *)
(* shipment record and no event published.                                 *)
C32_TrackOfStrangerNotFound ==
    [][(TrackStep /\ ~Owns(tReq'.user_id, tReq'.tracking_number)) =>
          /\ tResp' = [code |-> 404]
          /\ tCalls' = tCalls
          /\ db' = db
          /\ events' = events
          /\ inbox' = inbox /\ deferred' = deferred /\ pub' = pub]_vars

\* user 2 asked for T1, which user 1 owns and for which the carrier has a
\* status that is not the stored one: not found, no call, T1 as it was
C32_Witness ==
    /\ tcount = 1 /\ tResp = [code |-> 404] /\ tCalls = 0
    /\ tReq = [user_id |-> 2, tracking_number |-> "T1"]
    /\ Owns(1, "T1") /\ ~Owns(2, "T1") /\ Owns(2, "T2")
    /\ TruthyDict(GetTrackingInfo(upstream["T1"]))
    /\ GetTrackingInfo(upstream["T1"]).status # db[1].status
    /\ db[1].updated_at = 0
    /\ events = <<>>

====
